---- MODULE Spec2Model ----
(***************************************************************************)
(* A model of the honeypot service: the completion gateway with its        *)
(* rotating credential pool (key_manager.py), the persona catalog and      *)
(* selector (persona_manager.py) and the chat orchestrator with its        *)
(* session store (main.py).                                                *)
(*                                                                         *)
(* Texts are sequences of one-character strings, so that lower-casing,     *)
(* substring search, the payment-handle scan and the redaction splice are  *)
(* computed the way the Python code computes them.  Long fixed literals    *)
(* that the code only concatenates and never searches are one atom each.   *)
(***************************************************************************)
EXTENDS Integers, Sequences, FiniteSets, TLC

\* ------------------------------------------------------------------ bounds

\* Number of request slots (coroutines that may be in flight together).
MaxReq == 2

\* Number of consecutive direct calls of select_persona that are followed.
MaxSelects == 3

\* The environment offers at most three primary credentials.
MaxKeys == 3

\* The report, media and proof calls followed.
MaxCalls == 1

None == "None"

\* None where the code holds a str, a tuple or a dict: a sequence like them,
\* and different from each of them.
NoneStr == << None >>

Requests == 1..MaxReq

SessionIds == { "s1", "s2" }

\* ------------------------------------------------------------------ state

VARIABLES
    groq_keys,           \* KeyManager.groq_keys: the filtered list of credentials
    current_groq_index,  \* KeyManager.current_groq_index: the shared cursor
    openrouter_key,      \* KeyManager.openrouter_key, or None
    pc,                  \* per request: where its coroutine is suspended
    gw_i,                \* per request: iterations of the for loop already begun
    current_key,         \* per request: the local current_key of the loop body
    result,              \* per request: the value chat_completion returned
    raised,              \* per request: an exception left chat_completion
    gw_sent,             \* history: the reply text a provider sent to the call
    gw_log,              \* history: the requests the call issued, with outcomes
    gw_adv,              \* history: how often the call advanced the cursor
    personas,            \* PersonaManager.personas: the catalog
    sel_hist,            \* history: each direct select_persona call, with its result
    presidio_analyzer,   \* main.presidio_analyzer: the engine, or None
    classifier_loaded,   \* main: scam_classifier and tfidf_vectorizer are loaded
    sessions,            \* main.sessions: the dict session id -> session dict
    proof_count,         \* the proofs FakeProofGenerator has written to static/
    rendered,            \* history: the handle each proof was rendered for
    req_sid,             \* per request: request.session_id
    req_msg,             \* per request: request.message
    img_url,             \* per request: the local img_url of chat_endpoint
    response,            \* per request: the reply chat_endpoint returned
    flagged,             \* history: the spans the analyzer reported for the request
    user_at,             \* history: where in the transcript the request's user Turn is
    asst_at,             \* history: where the request's assistant Turn is, 0 before
    calls                \* history: the report, media and proof calls, with results

gwvars == <<groq_keys, current_groq_index, openrouter_key, pc, gw_i,
            current_key, result, raised, gw_sent, gw_log, gw_adv>>

pmvars == <<personas, sel_hist>>

envvars == <<presidio_analyzer, classifier_loaded>>

chatvars == <<envvars, sessions, proof_count, rendered, req_sid, req_msg, img_url,
              response, flagged, user_at, asst_at, calls>>

\* What the gateway does not touch.
appvars == <<pmvars, chatvars>>

vars == <<gwvars, pmvars, chatvars>>

\* ------------------------------------------------------- texts of the gateway

\* The reply text a provider may send back to request r
\* (response.json()['choices'][0]['message']['content']).
ReplyTexts(r) ==
    { <<"o", "k">> }
    \cup (IF img_url[r] = NoneStr THEN {} ELSE { <<"H", "e", "r", "e", " ">> \o img_url[r] })

NoKeysMessage == << "Server Error: No valid API keys available." >>

TroubleMessage == << "I am having trouble connecting. Can you say that again?" >>

\* The value is a str, not None.
IsText(t) == t # NoneStr /\ t \in Seq(STRING)

\* ------------------------------------------------------------------ texts

UpperCase == << "A", "B", "C", "D", "E", "F", "G", "H", "I", "J", "K", "L", "M",
                "N", "O", "P", "Q", "R", "S", "T", "U", "V", "W", "X", "Y", "Z" >>

LowerCase == << "a", "b", "c", "d", "e", "f", "g", "h", "i", "j", "k", "l", "m",
                "n", "o", "p", "q", "r", "s", "t", "u", "v", "w", "x", "y", "z" >>

\* str.lower() on one character.
LowerChar(c) ==
    IF \E i \in 1..26 : UpperCase[i] = c
    THEN LowerCase[CHOOSE i \in 1..26 : UpperCase[i] = c]
    ELSE c

\* str.lower().
RECURSIVE Lower(_)
Lower(t) ==
    IF t = <<>> THEN <<>> ELSE <<LowerChar(Head(t))>> \o Lower(Tail(t))

\* Python's  w in t  on strings.
IsSubstring(w, t) ==
    \E i \in 0..(Len(t) - Len(w)) : SubSeq(t, i + 1, i + Len(w)) = w

\* any(w in t for w in words), words a list.
AnyIn(words, t) == \E k \in 1..Len(words) : IsSubstring(words[k], t)

\* ---------------------------------------------------------------- messages

\* No trigger word.
M_Hi == <<"H", "i">>

\* The empty message.
M_Empty == <<>>

\* Trigger words of uncle (in capitals) and of student.
M_SirBro == <<"S", "I", "R", " ", "b", "r", "o">>

\* A trigger word of student before one of grandma.
M_BroMam == <<"b", "r", "o", " ", "m", "a", "m">>

\* A trigger word of student, capitalised.
M_Bro == <<"B", "r", "o">>

\* A trigger word of grandma ('old') inside another word.
M_Gold == <<"g", "o", "l", "d">>

\* A trigger word of uncle, capitalised.
M_Police == <<"P", "o", "l", "i", "c", "e">>

\* The opening message of test.py.
M_Lottery ==
    << "H", "e", "l", "l", "o", " ", "f", "r", "i", "e", "n", "d", ",",
       " ", "I", " ", "h", "a", "v", "e", " ", "a", " ", "b", "u", "s",
       "i", "n", "e", "s", "s", " ", "p", "r", "o", "p", "o", "s", "a",
       "l", " ", "f", "o", "r", " ", "y", "o", "u", " ", "a", "b", "o",
       "u", "t", " ", "a", " ", "l", "o", "t", "t", "e", "r", "y", "." >>

\* A phone number, which the analyzer flags.
M_Phone == <<"c", "a", "l", "l", " ", "9", "8", "7", "6", "5", "4", "3", "2", "1", "0">>

\* An e-mail address and a phone number, which the analyzer flags, and a bait
\* word.  Unredacted, the address also reads as a payment handle.
M_Email == <<"m", "e", "@", "a", "b", ".", "c", "o", " ",
             "9", "8", "7", "6", "5", "4", "3", "2", "1", "0", " ",
             "p", "r", "o", "o", "f">>

\* A payment handle and a trigger word of student.
M_Upi == <<"b", "r", "o", " ", "p", "a", "y", " ", "a", "1", "@", "y", "b", "l">>

\* A bait word, capitalised, and a payment handle.
M_Photo == <<"P", "h", "o", "t", "o", " ", "b", "2", "@", "o", "k">>

\* The message of test_empty_input: three spaces.
M_Blank == <<" ", " ", " ">>

\* The messages sent to the chat endpoint next to the other endpoints.
ApiMessages == { M_Empty, M_Blank, M_Photo }

\* The messages sent to the chat endpoint.
ChatMessages == { M_Phone, M_Email, M_Upi, M_Photo }

\* The messages select_persona is called with directly.
PersonaMessages ==
    { M_Hi, M_Empty, M_SirBro, M_BroMam, M_Bro, M_Gold, M_Police, M_Lottery }

\* --------------------------------------------------------- PersonaManager

hinglish_directive == << "CRITICAL LANGUAGE INSTRUCTION: You MUST adapt to the user's language immediately. ..." >>

\* The keys of self.personas in insertion order, the order items() yields.
PersonaOrder == << "grandma", "uncle", "student" >>

PersonaCatalog ==
    [ grandma |->
        [ name |-> "Grandma Edna",
          trigger_words |-> << "mam", "madam", "mother", "auntie", "mummy", "old" >>,
          system_prompt |-> << "IDENTITY: You are 'Grandma Edna', 75 years old. ..." >> ],
      uncle |->
        [ name |-> "Uncle Sharma",
          trigger_words |-> << "sir", "mr", "police", "cbi", "officer", "inspector", "arrest", "block" >>,
          system_prompt |-> << "IDENTITY: You are 'Uncle Sharma', a 55-year-old retired government clerk. ..." >> ],
      student |->
        [ name |-> "Rahul",
          trigger_words |-> << "bro", "dude", "job", "salary", "earn", "friend", "yar", "cash", "lottery" >>,
          system_prompt |-> << "IDENTITY: You are 'Rahul', a 20-year-old college student. ..." >> ] ]

\* The characters of each trigger word of the catalog.
Spell ==
    [ mam |-> <<"m", "a", "m">>,
      madam |-> <<"m", "a", "d", "a", "m">>,
      mother |-> <<"m", "o", "t", "h", "e", "r">>,
      auntie |-> <<"a", "u", "n", "t", "i", "e">>,
      mummy |-> <<"m", "u", "m", "m", "y">>,
      old |-> <<"o", "l", "d">>,
      sir |-> <<"s", "i", "r">>,
      mr |-> <<"m", "r">>,
      police |-> <<"p", "o", "l", "i", "c", "e">>,
      cbi |-> <<"c", "b", "i">>,
      officer |-> <<"o", "f", "f", "i", "c", "e", "r">>,
      inspector |-> <<"i", "n", "s", "p", "e", "c", "t", "o", "r">>,
      arrest |-> <<"a", "r", "r", "e", "s", "t">>,
      block |-> <<"b", "l", "o", "c", "k">>,
      bro |-> <<"b", "r", "o">>,
      dude |-> <<"d", "u", "d", "e">>,
      job |-> <<"j", "o", "b">>,
      salary |-> <<"s", "a", "l", "a", "r", "y">>,
      earn |-> <<"e", "a", "r", "n">>,
      friend |-> <<"f", "r", "i", "e", "n", "d">>,
      yar |-> <<"y", "a", "r">>,
      cash |-> <<"c", "a", "s", "h">>,
      lottery |-> <<"l", "o", "t", "t", "e", "r", "y">> ]

\* any(w in msg for w in words), words a list of catalog words.
AnyTrigger(words, msg) ==
    \E k \in 1..Len(words) : IsSubstring(Spell[words[k]], msg)

\* The first key, from position k of the iteration on, whose persona has a
\* trigger word in msg; None when the loop ends without one.
RECURSIVE FirstTriggered(_, _)
FirstTriggered(k, msg) ==
    IF k > Len(PersonaOrder) THEN None
    ELSE IF AnyTrigger(personas[PersonaOrder[k]].trigger_words, msg) THEN PersonaOrder[k]
    ELSE FirstTriggered(k + 1, msg)

\* A variant of SelectedKey that searches the message as given.
SelectedKey_NoLower(message) ==
    LET key == FirstTriggered(1, message)
    IN IF key = None THEN "grandma" ELSE key

\* The key of the persona select_persona(message) copies: the first one
\* triggered by message_lower = message.lower(), computed once, or the default.
SelectedKey(message) ==
    LET Key(message_lower) ==
            LET key == FirstTriggered(1, message_lower)
            IN IF key = None THEN "grandma" ELSE key
    IN CHOOSE k \in { Key(ml) : ml \in { Lower(message) } } : TRUE

\* The dict select_persona returns: a copy of the catalog entry whose
\* system_prompt has the language directive appended.
select_persona(message) ==
    LET p == personas[SelectedKey(message)]
    IN [p EXCEPT !.system_prompt = @ \o hinglish_directive]

\* A variant of CatalogAfterSelect for a selector that appends to the
\* catalog entry itself instead of to a copy.
CatalogAfterSelect_NoCopy(message) ==
    [personas EXCEPT ![SelectedKey(message)].system_prompt = @ \o hinglish_directive]

\* The catalog after select_persona(message): p.copy() keeps it as it was.
CatalogAfterSelect(message) == personas

InitPersonaManager ==
    /\ personas = PersonaCatalog
    /\ sel_hist = <<>>

\* ------------------------------------------------------------- KeyManager

\* An environment: the GROQ_API_KEY_n of `on` are set, the others are not.
Env(on) == [n \in 1..MaxKeys |-> IF n \in on THEN "set" ELSE None]

\* One environment per pool size 0..3, two of them with a variable left unset
\* before a set one.
EnvGroq == { Env({}), Env({2}), Env({1, 3}), Env({1, 2, 3}) }

\* The environments of the runs with calls in flight together: pools of 0..2.
EnvGroqSmall == { Env({}), Env({2}), Env({1, 3}) }

\* __init__: the keys that are set, in order, each named by its variable.
FilterKeys(env) ==
    LET F[n \in 0..MaxKeys] ==
            IF n = 0 THEN <<>>
            ELSE IF env[n] # None THEN Append(F[n - 1], <<"GROQ_API_KEY", n>>)
                 ELSE F[n - 1]
    IN F[MaxKeys]

get_current_groq_key ==
    IF groq_keys = <<>> THEN NoneStr ELSE groq_keys[current_groq_index + 1]

\* A variant of rotate_groq_key that does not wrap around.
rotate_groq_key_NoWrap ==
    IF groq_keys = <<>> THEN current_groq_index ELSE current_groq_index + 1

\* The cursor after _rotate_groq_key.
rotate_groq_key ==
    IF groq_keys = <<>> THEN current_groq_index
    ELSE (current_groq_index + 1) % Len(groq_keys)

GwLocals == <<gw_i, current_key, result, raised, gw_sent, gw_log, gw_adv>>

\* chat_completion is entered: the loop has not begun.
EnterGateway(r) ==
    /\ gw_i' = [gw_i EXCEPT ![r] = 0]
    /\ current_key' = [current_key EXCEPT ![r] = NoneStr]
    /\ result' = [result EXCEPT ![r] = NoneStr]
    /\ raised' = [raised EXCEPT ![r] = FALSE]
    /\ gw_sent' = [gw_sent EXCEPT ![r] = NoneStr]
    /\ gw_log' = [gw_log EXCEPT ![r] = <<>>]
    /\ gw_adv' = [gw_adv EXCEPT ![r] = 0]

LogIssue(r, tier, idx) ==
    gw_log' = [gw_log EXCEPT ![r] =
                  Append(@, [tier |-> tier, key |-> idx, outcome |-> "pending"])]

LogOutcome(r, o) ==
    gw_log' = [gw_log EXCEPT ![r] = [@ EXCEPT ![Len(@)].outcome = o]]

\* return <text> from chat_completion.
GwReturn(r, text) ==
    /\ result' = [result EXCEPT ![r] = text]
    /\ pc' = [pc EXCEPT ![r] = "gw_done"]

\* The secondary tier, lines 76-95: no credential, or one request.
IssueSecondary(r) ==
    IF openrouter_key = None
    THEN /\ GwReturn(r, NoKeysMessage)
         /\ UNCHANGED <<gw_log>>
    ELSE /\ pc' = [pc EXCEPT ![r] = "gw_secondary"]
         /\ LogIssue(r, "secondary", -1)
         /\ UNCHANGED <<result>>

\* A variant of LoopRuns for a loop that goes on until an attempt succeeds.
LoopRuns_UntilSuccess(r) == groq_keys # <<>>

\* Line 45, for _ in range(len(self.groq_keys)): an iteration is left to run.
LoopRuns(r) == gw_i[r] < Len(groq_keys)

\* One iteration of the for loop begins: read the current key, post with it.
GwAttempt(r) ==
    /\ UNCHANGED appvars
    /\ pc[r] = "gw_loop"
    /\ LoopRuns(r)
    /\ LET k == get_current_groq_key IN
       IF k = NoneStr
       THEN /\ IssueSecondary(r)
            /\ UNCHANGED <<gw_i, current_key>>
       ELSE /\ gw_i' = [gw_i EXCEPT ![r] = @ + 1]
            /\ current_key' = [current_key EXCEPT ![r] = k]
            /\ pc' = [pc EXCEPT ![r] = "gw_primary"]
            /\ LogIssue(r, "primary", current_groq_index)
            /\ UNCHANGED <<result>>
    /\ UNCHANGED <<groq_keys, current_groq_index, openrouter_key, raised,
                   gw_sent, gw_adv>>

\* The loop is exhausted (or the pool is empty): the OpenRouter failover.
GwFailover(r) ==
    /\ UNCHANGED appvars
    /\ pc[r] = "gw_loop"
    /\ ~LoopRuns(r)
    /\ IssueSecondary(r)
    /\ UNCHANGED <<groq_keys, current_groq_index, openrouter_key, gw_i,
                   current_key, raised, gw_sent, gw_adv>>

\* self._rotate_groq_key() by request r, then the next iteration.
RotateAndContinue(r) ==
    /\ current_groq_index' = rotate_groq_key
    /\ gw_adv' = [gw_adv EXCEPT ![r] = @ + 1]
    /\ pc' = [pc EXCEPT ![r] = "gw_loop"]
    /\ UNCHANGED <<result, raised, gw_sent>>

\* A variant of PrimaryRateLimited that retries without advancing the cursor.
PrimaryRateLimited_NoRotate(r) ==
    /\ LogOutcome(r, "429")
    /\ pc' = [pc EXCEPT ![r] = "gw_loop"]
    /\ UNCHANGED <<current_groq_index, gw_adv, result, raised, gw_sent>>

\* Lines 63-66: status 429.
PrimaryRateLimited(r) ==
    /\ LogOutcome(r, "429")
    /\ RotateAndContinue(r)

\* A variant of PrimaryException whose handler forgets to advance the cursor.
PrimaryException_NoRotate(r) ==
    /\ LogOutcome(r, "error")
    /\ pc' = [pc EXCEPT ![r] = "gw_loop"]
    /\ UNCHANGED <<current_groq_index, gw_adv, result, raised, gw_sent>>

\* Lines 71-74: the post, raise_for_status or the JSON path raised.
PrimaryException(r) ==
    /\ LogOutcome(r, "error")
    /\ RotateAndContinue(r)

\* A variant of PrimarySuccess that keeps the reply but does not leave the loop.
PrimarySuccess_NoReturn(r, text) ==
    /\ LogOutcome(r, "ok")
    /\ gw_sent' = [gw_sent EXCEPT ![r] = text]
    /\ result' = [result EXCEPT ![r] = text]
    /\ pc' = [pc EXCEPT ![r] = "gw_loop"]
    /\ UNCHANGED <<current_groq_index, gw_adv, raised>>

\* Lines 68-69: a 2xx answer carrying the reply.
PrimarySuccess(r, text) ==
    /\ LogOutcome(r, "ok")
    /\ gw_sent' = [gw_sent EXCEPT ![r] = text]
    /\ GwReturn(r, text)
    /\ UNCHANGED <<current_groq_index, gw_adv, raised>>

\* The primary provider answers the request of r.
GwPrimaryResponse(r) ==
    /\ UNCHANGED appvars
    /\ pc[r] = "gw_primary"
    /\ \/ PrimaryRateLimited(r)
       \/ PrimaryException(r)
       \/ \E text \in ReplyTexts(r) : PrimarySuccess(r, text)
    /\ UNCHANGED <<groq_keys, openrouter_key, gw_i, current_key>>

\* A variant of SecondaryException with no handler: the exception leaves the call.
SecondaryException_Uncaught(r) ==
    /\ LogOutcome(r, "error")
    /\ raised' = [raised EXCEPT ![r] = TRUE]
    /\ pc' = [pc EXCEPT ![r] = "gw_done"]
    /\ UNCHANGED <<result, gw_sent>>

\* Lines 98-100: the OpenRouter request failed.
SecondaryException(r) ==
    /\ LogOutcome(r, "error")
    /\ GwReturn(r, TroubleMessage)
    /\ UNCHANGED <<raised, gw_sent>>

\* Lines 96-97.
SecondarySuccess(r, text) ==
    /\ LogOutcome(r, "ok")
    /\ gw_sent' = [gw_sent EXCEPT ![r] = text]
    /\ GwReturn(r, text)
    /\ UNCHANGED <<raised>>

\* The secondary provider answers the request of r.
GwSecondaryResponse(r) ==
    /\ UNCHANGED appvars
    /\ pc[r] = "gw_secondary"
    /\ \/ SecondaryException(r)
       \/ \E text \in ReplyTexts(r) : SecondarySuccess(r, text)
    /\ UNCHANGED <<groq_keys, current_groq_index, openrouter_key, gw_i,
                   current_key, gw_adv>>

\* The steps of a gateway call in flight.
GwStep(r) ==
    \/ GwAttempt(r)
    \/ GwFailover(r)
    \/ GwPrimaryResponse(r)
    \/ GwSecondaryResponse(r)

\* ----------------------------------------------- the gateway called directly

\* A variant of GwCall that starts every call at the first credential.
GwCall_FromFirst(r) ==
    /\ UNCHANGED appvars
    /\ pc[r] = "idle"
    /\ EnterGateway(r)
    /\ pc' = [pc EXCEPT ![r] = "gw_loop"]
    /\ current_groq_index' = 0
    /\ UNCHANGED <<groq_keys, openrouter_key>>

\* A caller awaits key_manager.chat_completion(messages).
GwCall(r) ==
    /\ UNCHANGED appvars
    /\ pc[r] = "idle"
    /\ EnterGateway(r)
    /\ pc' = [pc EXCEPT ![r] = "gw_loop"]
    /\ UNCHANGED <<groq_keys, current_groq_index, openrouter_key>>

\* The caller has the returned string; the coroutine and its locals are gone.
GwTake(r) ==
    /\ UNCHANGED appvars
    /\ pc[r] = "gw_done"
    /\ EnterGateway(r)
    /\ pc' = [pc EXCEPT ![r] = "idle"]
    /\ UNCHANGED <<groq_keys, current_groq_index, openrouter_key>>

\* The module-level state of main.py with no request received yet.
InitRequests ==
    /\ sessions = [sid \in {} |-> None]
    /\ proof_count = 0
    /\ rendered = <<>>
    /\ req_sid = [r \in Requests |-> None]
    /\ req_msg = [r \in Requests |-> NoneStr]
    /\ img_url = [r \in Requests |-> NoneStr]
    /\ response = [r \in Requests |-> NoneStr]
    /\ flagged = [r \in Requests |-> {}]
    /\ user_at = [r \in Requests |-> 0]
    /\ asst_at = [r \in Requests |-> 0]
    /\ calls = <<>>

\* main.py loaded for a run that sends no chat message.
InitMain ==
    /\ presidio_analyzer = None
    /\ classifier_loaded = FALSE
    /\ InitRequests

\* KeyManager.__init__ under one of the environments envs; no call yet.
InitKeyManager(envs) ==
    /\ \E env \in envs : groq_keys = FilterKeys(env)
    /\ current_groq_index = 0
    /\ openrouter_key \in {None, "OPENROUTER_API_KEY"}
    /\ pc = [r \in Requests |-> "idle"]
    /\ gw_i = [r \in Requests |-> 0]
    /\ current_key = [r \in Requests |-> NoneStr]
    /\ result = [r \in Requests |-> NoneStr]
    /\ raised = [r \in Requests |-> FALSE]
    /\ gw_sent = [r \in Requests |-> NoneStr]
    /\ gw_log = [r \in Requests |-> <<>>]
    /\ gw_adv = [r \in Requests |-> 0]

InitGateway == InitKeyManager(EnvGroqSmall) /\ InitPersonaManager /\ InitMain

NextGateway ==
    \E r \in Requests : GwCall(r) \/ GwStep(r) \/ GwTake(r)

\* Concurrent callers of one KeyManager.
SpecGateway == InitGateway /\ [][NextGateway]_vars

\* Every provider request of a call ends, with an answer, an error or the
\* timeout of lines 60 and 94, and the coroutine is then run on.
GwFairness == \A r \in Requests : WF_pc(GwStep(r))

\* Concurrent callers under the scheduling of the event loop.
SpecGatewayFair == InitGateway /\ [][NextGateway]_vars /\ GwFairness

\* One caller at a time: a call begins only when no other is in flight.
GwCallAlone(r) ==
    /\ \A q \in Requests : pc[q] = "idle"
    /\ GwCall(r)

InitGatewayAlone == InitKeyManager(EnvGroq) /\ InitPersonaManager /\ InitMain

NextGatewayAlone ==
    \E r \in Requests : GwCallAlone(r) \/ GwStep(r) \/ GwTake(r)

\* Gateway calls one after the other (no two in flight together).
SpecGatewayAlone == InitGatewayAlone /\ [][NextGatewayAlone]_vars

\* ------------------------------------------------------------------ main.py

Redacted == <<"<", "R", "E", "D", "A", "C", "T", "E", "D", ">">>

\* What presidio_analyzer.analyze(text, ["PHONE_NUMBER", "EMAIL_ADDRESS"])
\* reports for the texts of the model: start and end as Python offsets.
AnalyzerResults(text) ==
    CASE text = M_Phone -> { [entity |-> "PHONE_NUMBER", start |-> 5, end |-> 15] }
      [] text = M_Email -> { [entity |-> "EMAIL_ADDRESS", start |-> 0, end |-> 8],
                             [entity |-> "PHONE_NUMBER", start |-> 9, end |-> 19] }
      [] OTHER -> {}

\* text[:start] + "<REDACTED>" + text[end:]
Splice(text, span) ==
    SubSeq(text, 1, span.start) \o Redacted \o SubSeq(text, span.end + 1, Len(text))

\* The loop of redact_pii: the results by descending start, each spliced
\* into the text the previous ones left.
RECURSIVE SpliceAll(_, _)
SpliceAll(text, results) ==
    IF results = {} THEN text
    ELSE LET last == CHOOSE x \in results : \A y \in results : y.start <= x.start
         IN SpliceAll(Splice(text, last), results \ {last})

\* redact_pii(text) when the analyzer reported results ({} also when it
\* is not loaded or analyze raised): the text itself when there are none.
redact_pii(text, results) ==
    IF results = {} THEN text ELSE SpliceAll(text, results)

Digits == { "0", "1", "2", "3", "4", "5", "6", "7", "8", "9" }

Letters == { UpperCase[i] : i \in 1..26 } \cup { LowerCase[i] : i \in 1..26 }

IsLetter(c) == c \in Letters

\* [a-zA-Z0-9.\-_]
IsIdChar(c) == IsLetter(c) \/ c \in Digits \/ c \in { ".", "-", "_" }

LocalMin == 2
LocalMax == 256
DomainMin == 2
DomainMax == 64

\* The position of the "@" of a match of upi_pattern that starts at i, or 0.
\* The local part cannot contain "@", so it is the run of i up to the "@".
AtOf(text, i) ==
    LET cand == { j \in (i + LocalMin)..Len(text) :
                    /\ j - i <= LocalMax
                    /\ text[j] = "@"
                    /\ \A k \in i..(j - 1) : IsIdChar(text[k])
                    /\ j + DomainMin <= Len(text)
                    /\ \A k \in (j + 1)..(j + DomainMin) : IsLetter(text[k]) }
    IN IF cand = {} THEN 0 ELSE CHOOSE j \in cand : TRUE

\* extract_upi(text): the leftmost match of upi_pattern, its domain taken
\* greedily; None without a match.
extract_upi(text) ==
    LET starts == { i \in 1..Len(text) : AtOf(text, i) # 0 }
    IN IF starts = {} THEN NoneStr
       ELSE LET i == CHOOSE x \in starts : \A y \in starts : x <= y
                j == AtOf(text, i)
                e == CHOOSE x \in (j + DomainMin)..Len(text) :
                        /\ x - j <= DomainMax
                        /\ \A k \in (j + 1)..x : IsLetter(text[k])
                        /\ (x = Len(text) \/ x - j = DomainMax \/ ~IsLetter(text[x + 1]))
            IN SubSeq(text, i, e)

BaitWords ==
    << <<"s", "c", "r", "e", "e", "n", "s", "h", "o", "t">>,
       <<"p", "r", "o", "o", "f">>,
       <<"p", "h", "o", "t", "o">>,
       <<"p", "a", "y", "m", "e", "n", "t", " ", "d", "o", "n", "e">> >>

PlaceholderUpi == << "scammer@bank" >>

\* uuid4().hex[:8] of the n-th proof: taken to be fresh each time.
HexIds == << "3f9a1c07", "b84e6d21", "07c5aa9e", "e1d0428b" >>

\* The filename generate_payment_proof returns for its n-th proof.
ProofFile(n) == << "proof_", HexIds[n], ".png" >>

\* f"/proof/{filename}"
ImgUrl(filename) == << "/proof/" >> \o filename

\* The Turn that tells the model to send the link.
DirectiveTurn(url) ==
    [ role |-> "system",
      content |-> << "[SYSTEM INSTRUCTION]: You have just successfully generated a fake GPay payment screenshot. The file link is '" >>
                  \o url
                  \o << "'. You MUST send this link to the user now. Say 'Here is the screenshot' or similar." >> ]

\* A variant of UserTurn that stores the message as received.
UserTurn_Raw(user_msg, safe_msg) == [ role |-> "user", content |-> user_msg ]

\* Line 144: the Turn stored for the incoming message.
UserTurn(user_msg, safe_msg) == [ role |-> "user", content |-> safe_msg ]

\* A variant of TrapTriggered that triggers once per session.
TrapTriggered_Once(session, lower_msg) ==
    AnyIn(BaitWords, lower_msg) /\ session.traps_triggered = <<>>

\* Line 168: the condition of the trap, whatever the session holds.
TrapTriggered(session, lower_msg) == AnyIn(BaitWords, lower_msg)

\* A variant of StoreUpi that keeps the handle the session already has.
StoreUpi_FirstWins(session, found_upi) ==
    IF found_upi # NoneStr /\ session.extracted_upi = NoneStr
    THEN [session EXCEPT !.extracted_upi = found_upi]
    ELSE session

\* Lines 139-141: a handle found in the message replaces the stored one.
StoreUpi(session, found_upi) ==
    IF found_upi # NoneStr THEN [session EXCEPT !.extracted_upi = found_upi] ELSE session

\* A variant of NewSession whose transcript starts empty.
NewSession_NoSeed(user_msg) ==
    [ history |-> <<>>,
      persona |-> select_persona(user_msg),
      ip_log |-> <<>>,
      traps_triggered |-> <<>>,
      extracted_upi |-> NoneStr,
      last_classification |-> NoneStr ]

\* Lines 120-131: the session dict of a session id seen for the first time.
\* last_classification is None or the pair (type, conf).
NewSession(user_msg) ==
    LET persona == select_persona(user_msg)
    IN [ history |-> << [ role |-> "system", content |-> persona.system_prompt ] >>,
         persona |-> persona,
         ip_log |-> <<>>,
         traps_triggered |-> <<>>,
         extracted_upi |-> NoneStr,
         last_classification |-> NoneStr ]

\* A variant of SessionOf that selects the persona again for every message.
SessionOf_Reselect(sid, user_msg) ==
    IF sid \notin DOMAIN sessions THEN NewSession(user_msg)
    ELSE [sessions[sid] EXCEPT !.persona = select_persona(user_msg)]

\* Lines 120-133: the session of the message, made first if the id is new.
SessionOf(sid, user_msg) ==
    IF sid \notin DOMAIN sessions THEN NewSession(user_msg) ELSE sessions[sid]

\* A variant of TargetUpi that renders for the placeholder handle.
TargetUpi_Placeholder(session) == PlaceholderUpi

\* Line 170: session["extracted_upi"] or "scammer@bank".
TargetUpi(session) ==
    IF session.extracted_upi # NoneStr THEN session.extracted_upi ELSE PlaceholderUpi

\* Lines 176-185: the trap record and the directive Turn are appended.
WithTrap(session, filename) ==
    [session EXCEPT
        !.traps_triggered =
            Append(@, [ type |-> "fake_proof", file |-> filename, timestamp |-> "now" ]),
        !.history = Append(@, DirectiveTurn(ImgUrl(filename)))]

\* What scam_classifier.predict and predict_proba do for a text: raise, or
\* give a label and a confidence.
ClassifierOutcomes ==
    { [ raised |-> TRUE, type |-> "unknown", conf |-> 0 ],
      [ raised |-> FALSE, type |-> "wrong_upi", conf |-> 1 ] }

\* What analyze does for a text: raise, or report its results.
AnalyzerOutcomes(text) ==
    { [ raised |-> TRUE, results |-> {} ],
      [ raised |-> FALSE, results |-> AnalyzerResults(text) ] }

\* Lines 116-190 of chat_endpoint, up to the sleep: the session is created
\* if new, the message redacted, scanned for a handle, stored, classified and
\* checked for bait.  analysis is what analyze did, prediction what the
\* classifier did.
ChatReceive(r, sid, user_msg, analysis, prediction) ==
    /\ pc[r] = "idle"
    /\ req_sid[r] = None
    /\ \E results \in { IF presidio_analyzer = None \/ analysis.raised
                         THEN {} ELSE analysis.results } :
       \E safe_msg \in { redact_pii(user_msg, results) } :
       \E lower_msg \in { Lower(safe_msg) } :
       LET isNew == sid \notin DOMAIN sessions
           s0 == SessionOf(sid, user_msg)
           found_upi == extract_upi(safe_msg)
           s1 == StoreUpi(s0, found_upi)
           s2 == [s1 EXCEPT !.history = Append(@, UserTurn(user_msg, safe_msg))]
           s3 == IF classifier_loaded /\ ~prediction.raised
                 THEN [s2 EXCEPT !.last_classification =
                                     << prediction.type, prediction.conf >>]
                 ELSE s2
           bait == TrapTriggered(s3, lower_msg)
           target_upi == TargetUpi(s3)
           filename == ProofFile(proof_count + 1)
           url == ImgUrl(filename)
           s4 == IF bait THEN WithTrap(s3, filename) ELSE s3
       IN /\ sessions' = [x \in DOMAIN sessions \cup {sid} |->
                             IF x = sid THEN s4 ELSE sessions[x]]
          /\ personas' = IF isNew THEN CatalogAfterSelect(user_msg) ELSE personas
          /\ proof_count' = IF bait THEN proof_count + 1 ELSE proof_count
          /\ rendered' = IF bait THEN Append(rendered, target_upi) ELSE rendered
          /\ img_url' = [img_url EXCEPT ![r] = IF bait THEN url ELSE NoneStr]
          /\ flagged' = [flagged EXCEPT ![r] = results]
          /\ user_at' = [user_at EXCEPT ![r] = Len(s2.history)]
    /\ req_sid' = [req_sid EXCEPT ![r] = sid]
    /\ req_msg' = [req_msg EXCEPT ![r] = user_msg]
    /\ pc' = [pc EXCEPT ![r] = "delay"]
    /\ UNCHANGED <<groq_keys, current_groq_index, openrouter_key, GwLocals,
                   sel_hist, envvars, response, asst_at, calls>>

\* A variant of ChatWake that waits until no other call is at a provider.
ChatWake_Exclusive(r) ==
    /\ pc[r] = "delay"
    /\ \A q \in Requests \ {r} : pc[q] \notin { "gw_loop", "gw_primary", "gw_secondary" }
    /\ EnterGateway(r)
    /\ pc' = [pc EXCEPT ![r] = "gw_loop"]
    /\ UNCHANGED <<groq_keys, current_groq_index, openrouter_key, appvars>>

\* Lines 190-193: the sleep is over; chat_completion(session["history"]).
ChatWake(r) ==
    /\ pc[r] = "delay"
    /\ EnterGateway(r)
    /\ pc' = [pc EXCEPT ![r] = "gw_loop"]
    /\ UNCHANGED <<groq_keys, current_groq_index, openrouter_key, appvars>>

\* A variant of FinalReply that returns the gateway's text as it is.
FinalReply_AsIs(url, response_text) == response_text

\* Lines 196-197: the link is appended to a reply that does not hold it.
FinalReply(url, response_text) ==
    IF url # NoneStr /\ ~IsSubstring(url, response_text)
    THEN response_text \o << "\n\n[Attachment]: " >> \o url
    ELSE response_text

\* A variant of StoreReply that stores nothing for a degraded message.
StoreReply_OnSuccessOnly(session, response_text) ==
    IF response_text \in { NoKeysMessage, TroubleMessage }
    THEN session
    ELSE [session EXCEPT !.history =
             Append(@, [ role |-> "assistant", content |-> response_text ])]

\* Line 200: the assistant Turn is appended to the transcript.
StoreReply(session, response_text) ==
    [session EXCEPT !.history =
        Append(@, [ role |-> "assistant", content |-> response_text ])]

\* A variant of SessionAlias for a handler that keeps its session in a name
\* shared by all requests: the session of a message still in its delay, if any.
SessionAlias_Shared(r) ==
    IF \E q \in Requests : pc[q] = "delay"
    THEN req_sid[CHOOSE q \in Requests : pc[q] = "delay"]
    ELSE req_sid[r]

\* Line 133: session is a local of the handler, so after the awaits it still
\* names the session of the request's own session id.
SessionAlias(r) == req_sid[r]

\* Lines 193-202: the gateway returned; the reply is stored and sent, and
\* the frame of the gateway call is gone.
ChatFinish(r) ==
    /\ pc[r] = "gw_done"
    /\ req_sid[r] # None
    /\ LET response_text == FinalReply(img_url[r], result[r])
           sid == SessionAlias(r)
       IN /\ sessions' = [sessions EXCEPT ![sid] = StoreReply(@, response_text)]
          /\ response' = [response EXCEPT ![r] = response_text]
          /\ asst_at' = [asst_at EXCEPT ![r] = Len(sessions[sid].history) + 1]
    /\ EnterGateway(r)
    /\ pc' = [pc EXCEPT ![r] = "replied"]
    /\ UNCHANGED <<groq_keys, current_groq_index, openrouter_key, pmvars,
                   envvars, proof_count, rendered, req_sid, req_msg, img_url, flagged,
                   user_at, calls>>

\* The deployments of the service that are followed: the primary keys set,
\* whether OPENROUTER_API_KEY is set, whether the analyzer loaded, whether the
\* classifier's files were found.
Deployments ==
    { [ groq |-> {},  openrouter |-> FALSE, analyzer |-> TRUE,  classifier |-> FALSE ],
      [ groq |-> {},  openrouter |-> TRUE,  analyzer |-> FALSE, classifier |-> FALSE ],
      [ groq |-> {2}, openrouter |-> TRUE,  analyzer |-> TRUE,  classifier |-> TRUE ] }

\* The modules loaded under one of the deployments; no request yet.
Init ==
    /\ \E d \in Deployments :
          /\ InitKeyManager({ Env(d.groq) })
          /\ openrouter_key = IF d.openrouter THEN "OPENROUTER_API_KEY" ELSE None
          /\ presidio_analyzer = IF d.analyzer THEN "AnalyzerEngine" ELSE None
          /\ classifier_loaded = d.classifier
    /\ InitPersonaManager
    /\ InitRequests

\* A chat message arrives in slot r.
Chat(r) ==
    \E sid \in SessionIds, user_msg \in ChatMessages :
        \E analysis \in AnalyzerOutcomes(user_msg),
           prediction \in ClassifierOutcomes :
            ChatReceive(r, sid, user_msg, analysis, prediction)

Next ==
    \E r \in Requests : Chat(r) \/ ChatWake(r) \/ GwStep(r) \/ ChatFinish(r)

\* The service: chat requests in flight together, each slot used once.
Spec == Init /\ [][Next]_vars

\* The event loop resumes every coroutine that can run: the sleep of line
\* 190 ends, the provider requests end (answer, error or timeout, lines 60
\* and 94), and a coroutine that is ready is run.  Each of these steps moves
\* the coroutine, so it changes pc.
Fairness ==
    \A r \in Requests :
        WF_pc(ChatWake(r)) /\ WF_pc(GwStep(r)) /\ WF_pc(ChatFinish(r))

\* The service under the scheduling of the event loop.
SpecFair == Init /\ [][Next]_vars /\ Fairness

\* ------------------------------------------------- the other endpoints

\* file.content_type of an upload.
ContentTypes == { "audio/mpeg", "image/png", "text/plain" }

\* "audio" in file.content_type, "image" in file.content_type.
IsAudio(content_type) == content_type = "audio/mpeg"

IsImage(content_type) == content_type = "image/png"

\* What media_handler.process_audio returns (media_handler.py lines 21-42).
AudioDescriptions ==
    IF openrouter_key = None
    THEN { << "[Error: No OpenRouter Key for Audio]" >> }
    ELSE { << "pay now" >>, << "[Audio Processing Failed]" >> }

\* What media_handler.process_image returns (media_handler.py lines 44-70).
ImageDescriptions ==
    { << "[Image Content: ", "pay now", "]" >>, << "[Image Processing Failed]" >> }

\* Lines 211-218: the description of an upload of the declared kind.
Descriptions(content_type) ==
    IF IsAudio(content_type) THEN AudioDescriptions
    ELSE IF IsImage(content_type) THEN ImageDescriptions
    ELSE { << "[Unsupported File Type]" >> }

\* Lines 222-225: the Turn injected for an upload.
ObservationTurn(description) ==
    [ role |-> "system",
      content |-> << "[System Observation]: User sent a file. Analysis: " >> \o description ]

\* A variant of InjectObservation that keeps one observation Turn per
\* transcript: a last Turn that is a system Turn is replaced.
InjectObservation_Replace(data, description) ==
    IF data.history[Len(data.history)].role = "system"
    THEN [data EXCEPT !.history[Len(data.history)] = ObservationTurn(description)]
    ELSE [data EXCEPT !.history = Append(@, ObservationTurn(description))]

\* Lines 222-225: the observation Turn is appended to the transcript.
InjectObservation(data, description) ==
    [data EXCEPT !.history = Append(@, ObservationTurn(description))]

\* upload_media(session_id, file), lines 204-227.  seen records whether the
\* session existed when the call was made.
UploadMedia(session_id, content_type, description) ==
    /\ Len(calls) < MaxCalls
    /\ description \in Descriptions(content_type)
    /\ sessions' = IF session_id \in DOMAIN sessions
                   THEN [sessions EXCEPT ![session_id] =
                            InjectObservation(@, description)]
                   ELSE sessions
    /\ calls' = Append(calls, [ op |-> "upload_media", session_id |-> session_id,
                                seen |-> session_id \in DOMAIN sessions,
                                status |-> 200,
                                body |-> [ description |-> description ] ])
    /\ UNCHANGED <<gwvars, pmvars, envvars, proof_count, rendered, req_sid, req_msg,
                   img_url, response, flagged, user_at, asst_at>>

\* get_report(session_id), lines 255-269.
GetReport(session_id) ==
    /\ Len(calls) < MaxCalls
    /\ calls' = Append(calls,
          IF session_id \notin DOMAIN sessions
          THEN [ op |-> "get_report", session_id |-> session_id, seen |-> FALSE,
                 status |-> 404, body |-> [ detail |-> << "Session not found" >> ] ]
          ELSE LET data == sessions[session_id]
               IN [ op |-> "get_report", session_id |-> session_id, seen |-> TRUE,
                    status |-> 200,
                    body |-> [ session_id |-> session_id,
                               persona_used |-> data.persona.name,
                               scammer_ip_logs |-> data.ip_log,
                               traps_deployed |-> data.traps_triggered,
                               chat_transcript |-> data.history ] ])
    /\ UNCHANGED <<gwvars, pmvars, envvars, sessions, proof_count, rendered, req_sid,
                   req_msg, img_url, response, flagged, user_at, asst_at>>

\* A file name no proof was written under.
UnknownFile == << "proof_", "deadbeef", ".png" >>

\* The file names asked for.
FetchNames == { ProofFile(1), ProofFile(2), UnknownFile }

\* request.client.host and the user-agent header of a fetch.
VisitorIps == { "203.0.113.7" }

UserAgents == { "curl/8.5.0" }

\* Line 243-244: some trap record of the session names the file.
HasTrapFor(data, filename) ==
    \E i \in 1..Len(data.traps_triggered) : data.traps_triggered[i].file = filename

\* A variant of LogVisit that logs the visit in every session.
LogVisit_Everywhere(data, filename, visitor_ip, user_agent) ==
    [data EXCEPT !.ip_log =
        Append(@, [ ip |-> visitor_ip, ua |-> user_agent, timestamp |-> "now" ])]

\* Lines 242-246 for one session: one entry at the first record that names
\* the file, then the inner loop is left.
LogVisit(data, filename, visitor_ip, user_agent) ==
    IF HasTrapFor(data, filename)
    THEN [data EXCEPT !.ip_log =
             Append(@, [ ip |-> visitor_ip, ua |-> user_agent, timestamp |-> "now" ])]
    ELSE data

\* os.path.exists(static/<filename>): the proofs written so far.
InStatic(filename) == \E n \in 1..proof_count : ProofFile(n) = filename

\* get_proof(filename, request), lines 229-253.
GetProof(filename, visitor_ip, user_agent) ==
    /\ Len(calls) < MaxCalls
    /\ sessions' = [sid \in DOMAIN sessions |->
                       LogVisit(sessions[sid], filename, visitor_ip, user_agent)]
    /\ calls' = Append(calls,
          [ op |-> "get_proof", filename |-> filename,
            visitor_ip |-> visitor_ip, user_agent |-> user_agent,
            status |-> IF InStatic(filename) THEN 200 ELSE 404,
            body |-> IF InStatic(filename)
                     THEN [ file |-> << "static/" >> \o filename ]
                     ELSE [ detail |-> << "File not found" >> ] ])
    /\ UNCHANGED <<gwvars, pmvars, envvars, proof_count, rendered, req_sid, req_msg,
                   img_url, response, flagged, user_at, asst_at>>

\* The deployment followed next to the other endpoints: one primary key, the
\* secondary key, no analyzer and no classifier.
ApiDeployment ==
    [ groq |-> {2}, openrouter |-> TRUE, analyzer |-> FALSE, classifier |-> FALSE ]

InitApi ==
    /\ InitKeyManager({ Env(ApiDeployment.groq) })
    /\ openrouter_key = "OPENROUTER_API_KEY"
    /\ presidio_analyzer = None
    /\ classifier_loaded = FALSE
    /\ InitPersonaManager
    /\ InitRequests

\* A chat message arrives in slot r, next to the other endpoints.
ChatApi(r) ==
    \E sid \in SessionIds, user_msg \in ApiMessages :
        \E analysis \in AnalyzerOutcomes(user_msg),
           prediction \in ClassifierOutcomes :
            ChatReceive(r, sid, user_msg, analysis, prediction)

Upload ==
    \E sid \in SessionIds, ct \in ContentTypes :
        \E description \in Descriptions(ct) : UploadMedia(sid, ct, description)

Report == \E sid \in SessionIds : GetReport(sid)

Fetch ==
    \E f \in FetchNames, ip \in VisitorIps, ua \in UserAgents : GetProof(f, ip, ua)

NextApi ==
    \/ \E r \in Requests : ChatApi(r) \/ ChatWake(r) \/ GwStep(r) \/ ChatFinish(r)
    \/ Upload
    \/ Report
    \/ Fetch

\* The service with all its endpoints.
SpecApi == InitApi /\ [][NextApi]_vars

\* ------------------------------------------------- requests that are cancelled

\* The messages sent when requests may be cancelled: they select different
\* personas, both hold a handle, one holds a bait word.
CancelMessages == { M_Upi, M_Photo }

\* The locals of the call are gone; what it had issued stays on record.
DropFrame(r) ==
    /\ gw_i' = [gw_i EXCEPT ![r] = 0]
    /\ current_key' = [current_key EXCEPT ![r] = NoneStr]
    /\ result' = [result EXCEPT ![r] = NoneStr]
    /\ gw_sent' = [gw_sent EXCEPT ![r] = NoneStr]
    /\ UNCHANGED <<raised, gw_log, gw_adv>>

\* A variant of ChatAbort whose handler cleans up by taking the user Turn of
\* the message out of the transcript.
ChatAbort_DropUserTurn(r) ==
    /\ pc[r] \in { "delay", "gw_primary", "gw_secondary" }
    /\ req_sid[r] # None
    /\ sessions' = [sessions EXCEPT ![req_sid[r]].history =
                        SubSeq(@, 1, user_at[r] - 1) \o SubSeq(@, user_at[r] + 1, Len(@))]
    /\ DropFrame(r)
    /\ pc' = [pc EXCEPT ![r] = "aborted"]
    /\ UNCHANGED <<groq_keys, current_groq_index, openrouter_key, pmvars, envvars,
                   proof_count, rendered, req_sid, req_msg, img_url, response,
                   flagged, user_at, asst_at, calls>>

\* The task of the request is cancelled while it is suspended in the sleep
\* of line 190 or, inside chat_completion, in a post (key_manager.py lines 51
\* and 83): CancelledError is no Exception, so no handler of the gateway
\* catches it and nothing runs in chat_endpoint after the await.
ChatAbort(r) ==
    /\ pc[r] \in { "delay", "gw_primary", "gw_secondary" }
    /\ req_sid[r] # None
    /\ DropFrame(r)
    /\ pc' = [pc EXCEPT ![r] = "aborted"]
    /\ UNCHANGED <<groq_keys, current_groq_index, openrouter_key, appvars>>

\* A chat message arrives in slot r of a service whose requests may be cancelled.
ChatCancel(r) ==
    \E sid \in SessionIds, user_msg \in CancelMessages :
        \E analysis \in AnalyzerOutcomes(user_msg),
           prediction \in ClassifierOutcomes :
            ChatReceive(r, sid, user_msg, analysis, prediction)

NextCancel ==
    \/ \E r \in Requests :
          ChatCancel(r) \/ ChatWake(r) \/ GwStep(r) \/ ChatFinish(r) \/ ChatAbort(r)
    \/ Upload
    \/ Report
    \/ Fetch

\* The service with all its endpoints, its chat requests cancelled at will.
SpecCancel == InitApi /\ [][NextCancel]_vars

\* ------------------------------------------- chat over a pool of credentials

\* A deployment with two primary credentials and the secondary one.
PoolDeployment ==
    [ groq |-> {1, 3}, openrouter |-> TRUE, analyzer |-> FALSE, classifier |-> FALSE ]

InitPool ==
    /\ InitKeyManager({ Env(PoolDeployment.groq) })
    /\ openrouter_key = "OPENROUTER_API_KEY"
    /\ presidio_analyzer = None
    /\ classifier_loaded = FALSE
    /\ InitPersonaManager
    /\ InitRequests

\* The messages sent to the chat endpoint of this deployment.
PoolMessages == { M_Upi, M_Photo }

\* A chat message arrives in slot r.
ChatPool(r) ==
    \E sid \in SessionIds, user_msg \in PoolMessages :
        \E analysis \in AnalyzerOutcomes(user_msg),
           prediction \in ClassifierOutcomes :
            ChatReceive(r, sid, user_msg, analysis, prediction)

NextPool ==
    \E r \in Requests : ChatPool(r) \/ ChatWake(r) \/ GwStep(r) \/ ChatFinish(r)

\* Chat requests in flight together whose gateway calls share a cursor that
\* moves.
SpecPool == InitPool /\ [][NextPool]_vars

\* --------------------------------------------- select_persona called directly

\* persona_manager.select_persona(m).
Select(m) ==
    /\ Len(sel_hist) < MaxSelects
    /\ sel_hist' = Append(sel_hist, [msg |-> m, persona |-> select_persona(m)])
    /\ personas' = CatalogAfterSelect(m)
    /\ UNCHANGED <<gwvars, chatvars>>

InitPersona == InitKeyManager({Env({})}) /\ InitPersonaManager /\ InitMain

NextPersona == \E m \in PersonaMessages : Select(m)

\* A PersonaManager whose select_persona is called again and again.
SpecPersona == InitPersona /\ [][NextPersona]_vars

\* ------------------------------------------------- properties of the gateway

InGateway(r) == pc[r] \in {"gw_loop", "gw_primary", "gw_secondary"}

Failed(e) == e.outcome \in {"429", "error"}

\* The primary requests of a call, in the order issued.
PrimaryLog(r) == SelectSeq(gw_log[r], LAMBDA e : e.tier = "primary")

PoolSize == Len(groq_keys)

\* A call that got PoolSize rate-limit answers in a row, one per iteration.
AllRateLimited(r) ==
    /\ PoolSize > 0
    /\ Len(PrimaryLog(r)) = PoolSize
    /\ \A j \in 1..PoolSize : PrimaryLog(r)[j].outcome = "429"

\* A call all of whose PoolSize primary attempts failed, for whatever reason.
AllPrimaryFailed(r) ==
    /\ Len(PrimaryLog(r)) = PoolSize
    /\ \A j \in 1..PoolSize : Failed(PrimaryLog(r)[j])

\* The secondary provider was contacted by the call.
SecondaryContacted(r) ==
    \E j \in 1..Len(gw_log[r]) : gw_log[r][j].tier = "secondary"

\* C1: chat_completion never raises to its caller.  No exception leaves a
\* call, a call in flight can always take its next step whatever the
\* providers answer, and a call that has ended has returned a string.
C1_NeverRaises ==
    \A r \in Requests :
        /\ ~raised[r]
        /\ InGateway(r) => ENABLED GwStep(r)
        /\ pc[r] = "gw_done" => IsText(result[r])

\* A call on the full pool ended after every provider failed, the secondary
\* one included.
C1_Witness ==
    \E r \in Requests :
        /\ pc[r] = "gw_done"
        /\ PoolSize = MaxKeys
        /\ Len(gw_log[r]) = MaxKeys + 1
        /\ gw_log[r][MaxKeys + 1].outcome = "error"

\* C2: a call that receives PoolSize consecutive 429 answers has used every
\* credential exactly once, in cursor order with wraparound from wherever
\* the cursor stood, and contacts the secondary provider only after them.
C2_RotationVisitsAll ==
    \A r \in Requests :
        AllRateLimited(r) =>
            /\ \A j \in 1..PoolSize :
                   PrimaryLog(r)[j].key = (PrimaryLog(r)[1].key + j - 1) % PoolSize
            /\ { PrimaryLog(r)[j].key : j \in 1..PoolSize } = 0..(PoolSize - 1)
            /\ \A j \in 1..Len(gw_log[r]) :
                   gw_log[r][j].tier = "secondary" => j = PoolSize + 1

\* Three credentials, the cursor starting at the last one, three 429 answers,
\* and the secondary provider contacted.
C2_Witness ==
    \E r \in Requests :
        /\ AllRateLimited(r)
        /\ PoolSize = 3
        /\ PrimaryLog(r)[1].key = 2
        /\ SecondaryContacted(r)

\* C3: no credential is attempted twice within one call, whatever other
\* calls do to the cursor meanwhile.
C3_EachCredentialAtMostOnce ==
    \A r \in Requests :
        \A i, j \in 1..Len(PrimaryLog(r)) :
            i # j => PrimaryLog(r)[i].key # PrimaryLog(r)[j].key

\* C4: whenever a call advances the cursor, the cursor still points at the
\* credential that call read for the attempt that just failed.
C4_ReadAndAdvanceAtomic ==
    [][ \A r \in Requests :
          gw_adv'[r] = gw_adv[r] + 1 =>
              current_groq_index = gw_log[r][Len(gw_log[r])].key ]_vars

\* The number of failed primary attempts of a call.
FailedCount(r) == Len(SelectSeq(PrimaryLog(r), Failed))

\* C5: with no concurrent call, every failed primary attempt (429 or not)
\* advances the cursor exactly once; and when all PoolSize attempts failed
\* and the secondary provider answered, the reply is the secondary's text,
\* the cursor advanced PoolSize times and is back where the call found it.
C5_FailureAdvancesOnce ==
    \A r \in Requests :
        Len(PrimaryLog(r)) > 0 =>
            /\ gw_adv[r] = FailedCount(r)
            /\ current_groq_index =
                   (PrimaryLog(r)[1].key + FailedCount(r)) % PoolSize
            /\ ( /\ pc[r] = "gw_done"
                 /\ AllPrimaryFailed(r)
                 /\ gw_log[r][Len(gw_log[r])].outcome = "ok" )
               => /\ result[r] = gw_sent[r]
                  /\ result[r] \in ReplyTexts(r)
                  /\ gw_adv[r] = PoolSize
                  /\ current_groq_index = PrimaryLog(r)[1].key

\* Two credentials, the cursor at 0, one 429 and one other failure, and the
\* secondary provider's reply returned.
C5_Witness ==
    \E r \in Requests :
        /\ pc[r] = "gw_done"
        /\ PoolSize = 2
        /\ Len(gw_log[r]) = 3
        /\ gw_log[r][1].key = 0
        /\ gw_log[r][1].outcome = "429"
        /\ gw_log[r][2].outcome = "error"
        /\ gw_log[r][3].outcome = "ok"
        /\ current_groq_index = 0

\* No provider gave the call a reply.
NoReply(r) == pc[r] = "gw_done" /\ gw_sent[r] = NoneStr

\* C6: a call that no provider answered returns the one fixed apology,
\* whether the secondary credential is missing or the secondary request
\* failed.
C6_OneDegradedMessage ==
    \A r \in Requests : NoReply(r) => result[r] = TroubleMessage

\* C7: within a call nothing is requested after a successful answer, and
\* the secondary provider is requested at most once, as the last request,
\* after exactly PoolSize failed primary attempts (none for an empty pool).
C7_StopAtSuccessOneFailover ==
    \A r \in Requests :
        LET L == gw_log[r] IN
        /\ \A j \in 1..Len(L) :
               /\ j < Len(L) => L[j].tier = "primary" /\ Failed(L[j])
               /\ L[j].tier = "secondary" => j = PoolSize + 1
               /\ L[j].outcome = "ok" => pc[r] = "gw_done" /\ result[r] = gw_sent[r]
        /\ Len(PrimaryLog(r)) <= PoolSize
        /\ pc[r] = "gw_done" => ~ENABLED GwStep(r)

\* A call whose second primary attempt succeeded while another call was in
\* flight: it ended with two requests in all.
C7_Witness ==
    \E r, q \in Requests :
        /\ r # q
        /\ InGateway(q)
        /\ pc[r] = "gw_done"
        /\ Len(gw_log[r]) = 2
        /\ gw_log[r][2].tier = "primary"
        /\ gw_log[r][2].outcome = "ok"

\* -------------------------------------------- properties of select_persona

\* Some trigger word of the catalog's persona key occurs in the lower-cased m.
Triggers(key, m) ==
    \E ml \in { Lower(m) } :
        \E k \in 1..Len(PersonaCatalog[key].trigger_words) :
            IsSubstring(Spell[PersonaCatalog[key].trigger_words[k]], ml)

\* The persona the declaration order gives m.
ExpectedKey(m) ==
    CASE Triggers("grandma", m) -> "grandma"
      [] ~Triggers("grandma", m) /\ Triggers("uncle", m) -> "uncle"
      [] ~Triggers("grandma", m) /\ ~Triggers("uncle", m) /\ Triggers("student", m)
            -> "student"
      [] OTHER -> "grandma"

\* C8: select_persona returns the first persona in declaration order
\* (grandma, uncle, student) with a trigger word occurring in the lower-cased
\* message, and grandma when there is none; a message with 'sir' and 'bro'
\* gets uncle, and one with 'bro' before 'mam' gets grandma.
C8_FirstDeclaredWins ==
    \A i \in 1..Len(sel_hist) :
        LET m == sel_hist[i].msg
            p == sel_hist[i].persona
        IN /\ p.name = PersonaCatalog[ExpectedKey(m)].name
           /\ p.trigger_words = PersonaCatalog[ExpectedKey(m)].trigger_words
           /\ m = M_SirBro => p.name = "Uncle Sharma"
           /\ m = M_BroMam => p.name = "Grandma Edna"
           /\ m = M_Bro => p.name = "Rahul"
           /\ m = M_Hi => p.name = "Grandma Edna"

\* The messages with trigger words of two personas, and one with none, have
\* been selected for.
C8_Witness ==
    /\ Len(sel_hist) = 3
    /\ sel_hist[1].msg = M_SirBro /\ sel_hist[1].persona.name = "Uncle Sharma"
    /\ sel_hist[2].msg = M_BroMam /\ sel_hist[2].persona.name = "Grandma Edna"
    /\ sel_hist[3].msg = M_Hi /\ sel_hist[3].persona.name = "Grandma Edna"

\* C9: selection is deterministic and leaves the catalog alone.  After any
\* selections the catalog is the declared one, two selections with the same
\* message returned the same persona, and the directive returned is the
\* catalog's directive followed by the language directive exactly once.
C9_SelectionPure ==
    /\ personas = PersonaCatalog
    /\ \A i, j \in 1..Len(sel_hist) :
           sel_hist[i].msg = sel_hist[j].msg => sel_hist[i].persona = sel_hist[j].persona
    /\ \A i \in 1..Len(sel_hist) :
           \E key \in DOMAIN PersonaCatalog :
               /\ sel_hist[i].persona.name = PersonaCatalog[key].name
               /\ sel_hist[i].persona.system_prompt =
                      PersonaCatalog[key].system_prompt \o hinglish_directive

\* The same message selected for twice, with another selection of the same
\* persona in between.
C9_Witness ==
    /\ Len(sel_hist) = 3
    /\ sel_hist[1].msg = M_Bro
    /\ sel_hist[2].msg = M_Lottery
    /\ sel_hist[3].msg = M_Bro
    /\ sel_hist[3].persona = sel_hist[1].persona

\* ------------------------------------------------- properties of the transcript

\* The text of req_msg[r] that the analyzer reported as span s.
FlaggedText(r, s) == SubSeq(req_msg[r], s.start + 1, s.end)

\* The user Turn that request r stored in the transcript of its session.
StoredUserTurn(r) == sessions[req_sid[r]].history[user_at[r]]

\* The requests that have stored their message.
Received == { r \in Requests : req_sid[r] # None }

\* C10: redaction precedes storage.  Every user Turn of every transcript is
\* the Turn some request stored, its content is the output of redact_pii on
\* the message of that request, and when the analyzer flagged the message the
\* content is not the raw message and holds none of the flagged texts.
C10_RedactionPrecedesStorage ==
    /\ \A r \in Received :
          /\ StoredUserTurn(r).role = "user"
          /\ StoredUserTurn(r).content = redact_pii(req_msg[r], flagged[r])
          /\ flagged[r] # {} =>
                /\ StoredUserTurn(r).content # req_msg[r]
                /\ \A s \in flagged[r] :
                      ~IsSubstring(FlaggedText(r, s), StoredUserTurn(r).content)
    /\ \A sid \in DOMAIN sessions :
          \A i \in 1..Len(sessions[sid].history) :
              sessions[sid].history[i].role = "user" =>
                  \E r \in Received : req_sid[r] = sid /\ user_at[r] = i

\* A message with two flagged spans has been stored, with both replaced.
C10_Witness ==
    \E r \in Received :
        /\ req_msg[r] = M_Email
        /\ Cardinality(flagged[r]) = 2
        /\ StoredUserTurn(r).content =
               Redacted \o <<" ">> \o Redacted \o <<" ", "p", "r", "o", "o", "f">>

\* ----------------------------------------------- properties of the session

\* The requests whose message went to session sid.
RequestsOf(sid) == { r \in Received : req_sid[r] = sid }

\* The handle in the text request r stored, None without one.
HandleOf(r) == extract_upi(StoredUserTurn(r).content)

\* The requests of sid whose stored message holds a handle.
WithHandle(sid) == { r \in RequestsOf(sid) : HandleOf(r) # NoneStr }

\* The latest of a non-empty set of requests of one session, by the place of
\* their user Turns in the transcript.
Latest(rs) == CHOOSE r \in rs : \A q \in rs : user_at[q] <= user_at[r]

Handle_A == <<"a", "1", "@", "y", "b", "l">>

Handle_B == <<"b", "2", "@", "o", "k">>

\* C11: the stored payment handle is last-seen-wins.  In every session the
\* stored handle is the handle of the most recent message that held one, it
\* is unset exactly when no message held one, and handle A followed by handle
\* B, with no handle after it, leaves B.
C11_LastSeenWins ==
    \A sid \in DOMAIN sessions :
        /\ WithHandle(sid) = {} <=> sessions[sid].extracted_upi = NoneStr
        /\ WithHandle(sid) # {} =>
              sessions[sid].extracted_upi = HandleOf(Latest(WithHandle(sid)))
        /\ \A a, b \in RequestsOf(sid) :
              /\ req_msg[a] = M_Upi /\ req_msg[b] = M_Photo
              /\ user_at[a] < user_at[b]
              /\ \A q \in WithHandle(sid) : user_at[q] <= user_at[b]
              => sessions[sid].extracted_upi = Handle_B

\* Handle A then handle B were sent to one session, which now stores B.
C11_Witness ==
    \E sid \in DOMAIN sessions :
        \E a, b \in RequestsOf(sid) :
            /\ req_msg[a] = M_Upi /\ HandleOf(a) = Handle_A
            /\ req_msg[b] = M_Photo /\ HandleOf(b) = Handle_B
            /\ user_at[a] < user_at[b]
            /\ sessions[sid].extracted_upi = Handle_B

\* The stored text of request r, lower-cased, holds a bait keyword.
HasBait(r) == \E lt \in { Lower(StoredUserTurn(r).content) } : AnyIn(BaitWords, lt)

\* The requests of sid whose message held a bait keyword.
BaitRequests(sid) == { r \in RequestsOf(sid) : HasBait(r) }

\* The places of the system Turns of a transcript after the persona directive.
DirectivePlaces(sid) ==
    { i \in 2..Len(sessions[sid].history) : sessions[sid].history[i].role = "system" }

\* C12: the trap is keyword-gated and repeatable.  In every session there is
\* one trap record and one directive system Turn per message with a bait
\* keyword and none for the other messages; the records are distinct, and
\* each bait message has its own record and its directive Turn right after
\* its user Turn.
C12_TrapPerBaitMessage ==
    \A sid \in DOMAIN sessions :
        LET traps == sessions[sid].traps_triggered
            hist == sessions[sid].history
        IN /\ Len(traps) = Cardinality(BaitRequests(sid))
           /\ Cardinality(DirectivePlaces(sid)) = Cardinality(BaitRequests(sid))
           /\ \A i, j \in 1..Len(traps) : i # j => traps[i] # traps[j]
           /\ \A r \in RequestsOf(sid) :
                 IF HasBait(r)
                 THEN /\ img_url[r] # NoneStr
                      /\ \E i \in 1..Len(traps) : ImgUrl(traps[i].file) = img_url[r]
                      /\ hist[user_at[r] + 1] = DirectiveTurn(img_url[r])
                 ELSE /\ img_url[r] = NoneStr
                      /\ (user_at[r] + 1) \notin DirectivePlaces(sid)
           /\ \A r \in RequestsOf(sid) :
                 /\ req_msg[r] = M_Photo => HasBait(r)
                 /\ req_msg[r] = M_Upi => ~HasBait(r)

\* Two bait messages went to one session, which holds two trap records.
C12_Witness ==
    \E sid \in DOMAIN sessions :
        /\ Cardinality(BaitRequests(sid)) = 2
        /\ Len(sessions[sid].traps_triggered) = 2
        /\ sessions[sid].traps_triggered[1].file # sessions[sid].traps_triggered[2].file

\* ------------------------------------------------- properties of the reply

\* The requests whose reply has been returned.
Replied == { r \in Requests : pc[r] = "replied" /\ req_sid[r] # None }

\* The assistant Turn that request r stored.
StoredAssistantTurn(r) == sessions[req_sid[r]].history[asst_at[r]]

\* C13: a triggered trap is always mentioned.  For every message that
\* triggered a trap, the reply returned and the assistant Turn stored for it
\* hold the link of the artifact made for that message, whatever the gateway
\* returned.
C13_ArtifactAlwaysMentioned ==
    \A r \in Replied :
        /\ StoredAssistantTurn(r) = [ role |-> "assistant", content |-> response[r] ]
        /\ img_url[r] # NoneStr =>
              /\ IsSubstring(img_url[r], response[r])
              /\ IsSubstring(img_url[r], StoredAssistantTurn(r).content)
              /\ \E i \in 1..Len(sessions[req_sid[r]].traps_triggered) :
                    ImgUrl(sessions[req_sid[r]].traps_triggered[i].file) = img_url[r]

\* A trap was triggered, the gateway's text did not hold the link, and the
\* reply carries it as an attachment.
C13_Witness ==
    \E r \in Replied :
        /\ img_url[r] # NoneStr
        /\ response[r] = TroubleMessage \o << "\n\n[Attachment]: " >> \o img_url[r]
        /\ StoredAssistantTurn(r).content = response[r]

\* Request r is past its delay and inside chat_completion, or just back.
AtGateway(r) == pc[r] \in { "gw_loop", "gw_primary", "gw_secondary", "gw_done" }

\* Request r is the only message its session has received, and held no bait.
SoleFirstMessage(r) ==
    /\ r \in Received
    /\ RequestsOf(req_sid[r]) = { r }
    /\ ~HasBait(r)

\* C14: a first message without bait keyword, alone on its session, leaves
\* a transcript of exactly 2 Turns (the persona directive, the user message)
\* while the gateway is called and of exactly 3 (plus the assistant reply)
\* once the call has returned and the reply is stored.
C14_TwoTurnsThenThree ==
    \A r \in Requests :
        SoleFirstMessage(r) =>
            LET hist == sessions[req_sid[r]].history
            IN /\ hist[1] = [ role |-> "system",
                              content |-> sessions[req_sid[r]].persona.system_prompt ]
               /\ hist[2] = StoredUserTurn(r) /\ hist[2].role = "user"
               /\ (pc[r] = "delay" \/ AtGateway(r)) => Len(hist) = 2
               /\ pc[r] = "replied" =>
                     /\ Len(hist) = 3
                     /\ hist[3] = [ role |-> "assistant", content |-> response[r] ]

\* A first message without bait was answered: its transcript holds 3 Turns.
C14_Witness ==
    \E r \in Replied :
        /\ SoleFirstMessage(r)
        /\ req_msg[r] = M_Upi
        /\ Len(sessions[req_sid[r]].history) = 3
        /\ sessions[req_sid[r]].persona.name = "Rahul"

\* The places of the assistant Turns of a transcript.
AssistantPlaces(sid) ==
    { i \in 1..Len(sessions[sid].history) : sessions[sid].history[i].role = "assistant" }

\* The step in which request r, whose gateway call no provider answered,
\* stores and returns its reply: the reply starts with the degraded message
\* the call returned (and is that message when no trap was triggered), and
\* the transcript gains one assistant Turn with the reply.
DegradedReplyStep(r) ==
    LET sid == req_sid[r]
        reply == response'[r]
    IN /\ result[r] \in { NoKeysMessage, TroubleMessage }
       /\ SubSeq(reply, 1, Len(result[r])) = result[r]
       /\ img_url[r] = NoneStr => reply = result[r]
       /\ sessions'[sid].history =
              Append(sessions[sid].history, [ role |-> "assistant", content |-> reply ])

\* C15: provider failure never interrupts the chat transition.  A message
\* whose gateway call has returned can always store and return its reply;
\* every transcript holds one assistant Turn per answered message; and when
\* no provider answered (empty or failing primary pool, secondary failing or
\* not configured) the reply is the degraded message and the transcript gains
\* exactly one assistant Turn with that text.
C15_FailureStillReplies ==
    /\ [](\A r \in Requests :
            pc[r] = "gw_done" /\ req_sid[r] # None => ENABLED ChatFinish(r))
    /\ [](\A sid \in DOMAIN sessions :
            Cardinality(AssistantPlaces(sid)) = Cardinality(RequestsOf(sid) \cap Replied))
    /\ [][\A r \in Requests :
            NoReply(r) /\ req_sid[r] # None /\ pc'[r] = "replied" => DegradedReplyStep(r)]_vars

\* With no primary credential and no secondary one, a message was answered
\* with the degraded message, which is its assistant Turn.
C15_Witness ==
    \E r \in Replied :
        /\ groq_keys = <<>> /\ openrouter_key = None
        /\ response[r] = NoKeysMessage
        /\ StoredAssistantTurn(r) = [ role |-> "assistant", content |-> NoKeysMessage ]
        /\ Cardinality(AssistantPlaces(req_sid[r])) = 1

\* ------------------------------------------ properties of the scheduling

\* C16: the messages of one session are processed to completion in arrival
\* order.  In every transcript, the assistant Turn of a message is stored
\* before the user Turn of any later message of the same session.
C16_SessionSerialized ==
    \A sid \in DOMAIN sessions :
        \A a, b \in RequestsOf(sid) :
            user_at[a] < user_at[b] => asst_at[a] # 0 /\ asst_at[a] < user_at[b]

\* Request r is suspended: in its delay or in a provider request.
Suspended(r) == pc[r] \in { "delay", "gw_primary", "gw_secondary" }

\* Whatever the other requests do, request r can take its next step.
CanProceed(r) ==
    /\ pc[r] = "idle" /\ req_sid[r] = None => ENABLED Chat(r)
    /\ pc[r] = "delay" => ENABLED ChatWake(r)
    /\ InGateway(r) => ENABLED GwStep(r)
    /\ pc[r] = "gw_done" /\ req_sid[r] # None => ENABLED ChatFinish(r)

\* C17: sessions do not block each other.  Whatever the other messages are
\* suspended in, a message can take each step of its transition; and under
\* the scheduling of the event loop every message received returns a reply.
C17_SessionsDoNotBlock ==
    /\ [](\A r \in Requests : CanProceed(r))
    /\ \A r \in Requests : (req_sid[r] # None) ~> (pc[r] = "replied")

\* A message arrived for a session after another session's message, and has
\* been answered while the first is still in its delay.
C17_Witness ==
    \E a, b \in Requests :
        /\ a \in Received /\ b \in Received /\ req_sid[a] # req_sid[b]
        /\ img_url[a] # NoneStr /\ img_url[b] # NoneStr
        /\ img_url[a] = ImgUrl(ProofFile(1)) /\ img_url[b] = ImgUrl(ProofFile(2))
        /\ pc[a] = "delay" /\ Suspended(a)
        /\ pc[b] = "replied"

\* --------------------------------------- properties of the other endpoints

\* The report and media calls made so far.
SessionCalls ==
    { i \in 1..Len(calls) : calls[i].op \in { "get_report", "upload_media" } }

\* C18: a report call or a media call for a session id never seen answers
\* with a not-found error and creates no session, and a chat call always has
\* its session.
C18_UnseenSessionNotFound ==
    /\ \A i \in SessionCalls : ~calls[i].seen => calls[i].status = 404
    /\ DOMAIN sessions = { req_sid[r] : r \in Received }
    /\ \A r \in Received : req_sid[r] \in DOMAIN sessions

\* str.strip() leaves nothing of the text.
IsBlank(t) == \A i \in 1..Len(t) : t[i] \in { " ", "\t", "\n" }

\* C19: a chat call whose message is empty or only whitespace is rejected:
\* it stores no Turn and gets no reply.
C19_BlankRejected ==
    \A r \in Received :
        IsBlank(req_msg[r]) => user_at[r] = 0 /\ pc[r] # "replied"

\* The sessions with a trap record that names the file.
Owners(filename) ==
    { sid \in DOMAIN sessions : HasTrapFor(sessions[sid], filename) }

\* This step is a call of get_proof.
FetchStep ==
    /\ Len(calls') = Len(calls) + 1
    /\ calls'[Len(calls')].op = "get_proof"

\* What a fetch does to the sessions: the session whose trap records name
\* the file gains one entry with the address and the user agent of the
\* fetch and is otherwise as before; every other session is as before.
FetchEffect ==
    LET c == calls'[Len(calls')]
    IN /\ DOMAIN sessions' = DOMAIN sessions
       /\ Cardinality(Owners(c.filename)) <= 1
       /\ \A sid \in DOMAIN sessions :
             IF sid \in Owners(c.filename)
             THEN /\ Len(sessions'[sid].ip_log) = Len(sessions[sid].ip_log) + 1
                  /\ SubSeq(sessions'[sid].ip_log, 1, Len(sessions[sid].ip_log))
                        = sessions[sid].ip_log
                  /\ sessions'[sid].ip_log[Len(sessions'[sid].ip_log)].ip = c.visitor_ip
                  /\ sessions'[sid].ip_log[Len(sessions'[sid].ip_log)].ua = c.user_agent
                  /\ sessions'[sid].history = sessions[sid].history
                  /\ sessions'[sid].traps_triggered = sessions[sid].traps_triggered
                  /\ sessions'[sid].persona = sessions[sid].persona
                  /\ sessions'[sid].extracted_upi = sessions[sid].extracted_upi
             ELSE sessions'[sid] = sessions[sid]

\* C20: an artifact fetch for a file appends exactly one access entry
\* (address, user agent) to the access log of the session whose trap records
\* name the file, nothing to any other session, changes no transcript and no
\* trap list, and changes no session at all when no session names the file.
C20_FetchLogsToOwner == [][FetchStep => FetchEffect]_vars

\* Two sessions exist, the proof of one of them was fetched: its access log
\* holds the one entry, the other's is empty.
C20_Witness ==
    /\ Len(calls) = 1 /\ calls[1].op = "get_proof"
    /\ calls[1].filename = ProofFile(1) /\ calls[1].status = 200
    /\ \E a, b \in DOMAIN sessions :
          /\ a # b
          /\ HasTrapFor(sessions[a], ProofFile(1))
          /\ Len(sessions[a].ip_log) = 1
          /\ sessions[a].ip_log[1].ip = calls[1].visitor_ip
          /\ sessions[b].ip_log = <<>>

\* ------------------------------------- properties of the session's lifetime

\* The request whose message created session sid: its user Turn is the
\* second Turn of the transcript.
Creator(sid) == CHOOSE r \in RequestsOf(sid) : user_at[r] = 2

\* The Turn that carries the directive of the persona of session sid.
PersonaTurn(sid) ==
    [ role |-> "system", content |-> sessions[sid].persona.system_prompt ]

\* C21: the persona is selected once per session id and frozen.  In every
\* state, whatever chat, media, fetch and report calls were made and however
\* they interleaved, the persona of a session is the one selected for the
\* message that created it, and its transcript holds the persona directive
\* as a system Turn once, as its first Turn; and no step changes the persona
\* of a session that exists.
C21_PersonaFrozen ==
    /\ [](\A sid \in DOMAIN sessions :
            /\ \E r \in RequestsOf(sid) : user_at[r] = 2
            /\ sessions[sid].persona = select_persona(req_msg[Creator(sid)])
            /\ sessions[sid].history[1] = PersonaTurn(sid)
            /\ \A i \in 2..Len(sessions[sid].history) :
                  sessions[sid].history[i] # PersonaTurn(sid))
    /\ [][\A sid \in DOMAIN sessions :
            /\ sid \in DOMAIN sessions'
            /\ sessions'[sid].persona = sessions[sid].persona]_vars

\* Two first messages for one unseen id were in flight together, the first
\* selecting Rahul and the second, alone, Grandma Edna; a media call followed:
\* the session has the persona of the first.
C21_Witness ==
    \E sid \in DOMAIN sessions :
        \E a, b \in RequestsOf(sid) :
            /\ req_msg[a] = M_Upi /\ user_at[a] = 2
            /\ req_msg[b] = M_Photo /\ user_at[b] = 3
            /\ pc[a] = "delay" /\ pc[b] = "delay"
            /\ sessions[sid].persona.name = "Rahul"
            /\ select_persona(M_Photo).name = "Grandma Edna"
            /\ Len(calls) = 1 /\ calls[1].op = "upload_media"
            /\ calls[1].session_id = sid /\ calls[1].seen

\* Sequence a is the beginning of sequence b.
IsPrefix(a, b) == Len(a) <= Len(b) /\ SubSeq(b, 1, Len(a)) = a

\* The roles of the Turns of the transcript of sid, in order.
Roles(sid) == [ i \in 1..Len(sessions[sid].history) |-> sessions[sid].history[i].role ]

\* C22: the transcript is append-only.  Every step of the service (a step
\* of a chat request, a media call, an artifact fetch, a report) leaves every
\* session in place with the transcript it had as the beginning of the
\* transcript it has afterwards.
C22_AppendOnly ==
    [][\A sid \in DOMAIN sessions :
          /\ sid \in DOMAIN sessions'
          /\ IsPrefix(sessions[sid].history, sessions'[sid].history)]_vars

\* A transcript that every kind of append has reached: the persona Turn, a
\* user Turn, the directive Turn of its trap, the observation Turn of a media
\* call and the assistant Turn.
C22_Witness ==
    \E sid \in DOMAIN sessions :
        /\ Roles(sid) = << "system", "user", "system", "system", "assistant" >>
        /\ \E d \in Descriptions("image/png") :
              sessions[sid].history[4] = ObservationTurn(d)
        /\ Len(calls) = 1 /\ calls[1].op = "upload_media" /\ calls[1].seen

\* Turn t is a directive Turn of a trap: a system Turn that begins as the
\* text of line 184 does.
IsDirective(t) ==
    t.role = "system" /\ Head(t.content) = Head(DirectiveTurn(<<>>).content)

\* The places of the directive Turns of the transcript of sid.
TrapDirectives(sid) ==
    { i \in 1..Len(sessions[sid].history) : IsDirective(sessions[sid].history[i]) }

\* The requests that were cancelled at an await.
Aborted == { r \in Received : pc[r] = "aborted" }

\* C23: no transcript holds an orphaned directive Turn.  In every state,
\* also after a request was cancelled in its delay or in a provider request
\* and whatever ran in between, each directive Turn of a transcript has the
\* user Turn of the message that triggered it right before it, the
\* transcript holds as many directive Turns as the session has trap records,
\* and a cancelled request has left its user Turn in place.
C23_NoOrphanDirective ==
    /\ \A sid \in DOMAIN sessions :
          LET hist == sessions[sid].history
          IN /\ \A i \in TrapDirectives(sid) :
                   /\ i > 1
                   /\ hist[i - 1].role = "user"
                   /\ \E r \in RequestsOf(sid) :
                         /\ user_at[r] = i - 1
                         /\ HasBait(r)
                         /\ hist[i] = DirectiveTurn(img_url[r])
             /\ Cardinality(TrapDirectives(sid)) = Len(sessions[sid].traps_triggered)
    /\ \A r \in Aborted :
          /\ StoredUserTurn(r) = UserTurn(req_msg[r], redact_pii(req_msg[r], flagged[r]))
          /\ asst_at[r] = 0

\* One message that triggered a trap was cancelled in its delay and another
\* in its request to the secondary provider: each transcript holds the user
\* Turn and, right after it, the directive Turn, and no assistant Turn.
C23_Witness ==
    \E a, b \in Aborted :
        /\ a # b /\ req_sid[a] # req_sid[b]
        /\ img_url[a] # NoneStr /\ img_url[b] # NoneStr
        /\ gw_log[a] = <<>>
        /\ Len(gw_log[b]) = 2
        /\ gw_log[b][2].tier = "secondary" /\ gw_log[b][2].outcome = "pending"
        /\ \A r \in { a, b } :
              /\ Roles(req_sid[r]) = << "system", "user", "system" >>
              /\ TrapDirectives(req_sid[r]) = { 3 }

\* ------------------------------------------------- properties of the cursor

\* C24: with a non-empty pool the cursor is always an index of the pool,
\* whatever the calls in flight did to it; with an empty pool advancing
\* leaves the cursor as it is, the current credential is none, and no call
\* has issued a primary request.
C24_CursorInRange ==
    /\ PoolSize > 0 => current_groq_index \in 0..(PoolSize - 1)
    /\ PoolSize = 0 =>
          /\ rotate_groq_key = current_groq_index
          /\ get_current_groq_key = NoneStr
          /\ \A r \in Requests : PrimaryLog(r) = <<>>

\* Two credentials, two calls in flight together, three advances in all:
\* the cursor went from the last credential back to the first and on.
C24_Witness ==
    /\ PoolSize = 2
    /\ \E r, q \in Requests :
          /\ r # q
          /\ gw_adv[r] = 2 /\ gw_adv[q] = 1
          /\ current_groq_index = 1

\* ------------------------------------------ properties of the chat transition

\* This step is a step of the chat request in slot r.
ChatStepOf(r) == pc'[r] # pc[r]

\* What a request keeps in its own frame.
FrameOf(r) ==
    << req_sid[r], req_msg[r], img_url[r], response[r], result[r], gw_i[r],
       current_key[r], user_at[r], asst_at[r] >>

\* What the step does to the session S of the request: created or extended
\* when the message arrives, untouched while the request sleeps and while the
\* gateway runs, and given the assistant Turn when the reply is returned.
OwnSessionEffect(r, S) ==
    /\ pc[r] = "idle" /\ S \in DOMAIN sessions =>
          /\ sessions'[S].persona = sessions[S].persona
          /\ sessions'[S].ip_log = sessions[S].ip_log
          /\ IsPrefix(sessions[S].history, sessions'[S].history)
          /\ IsPrefix(sessions[S].traps_triggered, sessions'[S].traps_triggered)
    /\ pc[r] \in { "delay", "gw_loop", "gw_primary", "gw_secondary" } =>
          sessions' = sessions
    /\ pc[r] = "gw_done" =>
          sessions'[S] = [sessions[S] EXCEPT !.history =
              Append(@, [ role |-> "assistant", content |-> response'[r] ])]

\* The steps of a request enter the gateway once: from the delay, which is
\* entered on arrival only, and the reply is returned when the call is back.
OneGatewayCall(r) ==
    /\ pc'[r] = "delay" => pc[r] = "idle"
    /\ pc'[r] = "gw_loop" => pc[r] \in { "delay", "gw_primary" }
    /\ pc[r] = "delay" => pc'[r] = "gw_loop" /\ gw_log'[r] = <<>>
    /\ pc'[r] = "replied" => pc[r] = "gw_done"
    /\ pc'[r] # "idle"

\* C25: a chat transition for session id S reads and writes session S only.
\* Every step of a chat request leaves every other session as it is
\* (transcript, persona, stored handle, trap list, access log, last
\* classification) and creates no session but S, leaves the frames of the
\* other requests as they are, changes S as a function of S and of its own
\* frame, and enters the gateway once; of the objects that the requests share
\* (the credential pool, the secondary credential, the catalog, the analyzer,
\* the classifier, the cursor) only the cursor changes, and only in a step of
\* the gateway.
C25_OnlyOwnSession ==
    [][\A r \in Requests :
          ChatStepOf(r) =>
              LET S == req_sid'[r]
              IN /\ DOMAIN sessions' = DOMAIN sessions \cup { S }
                 /\ \A sid \in DOMAIN sessions :
                       sid # S => sessions'[sid] = sessions[sid]
                 /\ \A q \in Requests \ { r } : FrameOf(q)' = FrameOf(q)
                 /\ OwnSessionEffect(r, S)
                 /\ OneGatewayCall(r)
                 /\ << groq_keys, openrouter_key, personas, presidio_analyzer,
                       classifier_loaded >>' =
                    << groq_keys, openrouter_key, personas, presidio_analyzer,
                       classifier_loaded >>
                 /\ current_groq_index' # current_groq_index => pc[r] = "gw_primary"
      ]_vars

\* Two messages for two sessions were in flight together and both are
\* answered, the cursor having advanced meanwhile: each transcript holds the
\* Turns of its own message only.
C25_Witness ==
    \E a, b \in Replied :
        /\ req_sid[a] # req_sid[b]
        /\ current_groq_index = 1
        /\ response[a] = TroubleMessage /\ response[b] # TroubleMessage
        /\ req_msg[a] = M_Upi /\ req_msg[b] = M_Photo
        /\ user_at[a] = 2 /\ asst_at[a] = 3
        /\ Len(sessions[req_sid[a]].history) = 3
        /\ user_at[b] = 2 /\ asst_at[b] = 4
        /\ Len(sessions[req_sid[b]].history) = 4
        /\ sessions[req_sid[a]].extracted_upi = Handle_A
        /\ sessions[req_sid[b]].extracted_upi = Handle_B
        /\ sessions[req_sid[a]].traps_triggered = <<>>
        /\ Len(sessions[req_sid[b]].traps_triggered) = 1

\* ---------------------------------------------- properties of the bounded walk

\* The secondary requests of a call.
SecondaryLog(r) == SelectSeq(gw_log[r], LAMBDA e : e.tier = "secondary")

\* C26: every gateway call ends after a bounded walk.  Whatever concurrent
\* calls do to the cursor, a call has begun at most PoolSize iterations,
\* issued at most PoolSize primary requests and at most one secondary one;
\* and every call in flight ends.
C26_BoundedWalk ==
    /\ [](\A r \in Requests :
            /\ gw_i[r] <= PoolSize
            /\ Len(PrimaryLog(r)) <= PoolSize
            /\ Len(SecondaryLog(r)) <= 1
            /\ Len(gw_log[r]) <= PoolSize + 1)
    /\ \A r \in Requests : InGateway(r) ~> (pc[r] = "gw_done")

\* Two calls in flight together on two credentials: one has ended after two
\* failed primary requests and a failed secondary one, while the other kept
\* advancing the cursor.
C26_Witness ==
    \E r, q \in Requests :
        /\ r # q
        /\ PoolSize = 2
        /\ pc[r] = "gw_done" /\ result[r] = TroubleMessage
        /\ Len(PrimaryLog(r)) = 2 /\ Len(SecondaryLog(r)) = 1
        /\ InGateway(q) /\ gw_adv[q] = 2

\* ------------------------------------------------ properties of the artifact

\* The requests of the session of r, up to r itself, whose stored message
\* holds a handle.
HandlesUpTo(r) == { q \in WithHandle(req_sid[r]) : user_at[q] <= user_at[r] }

\* C27: the artifact of a trap is rendered for the handle the session stores
\* once the triggering message has been scanned.  Every proof was rendered
\* for the handle of the triggering message when it holds one, else for the
\* handle of the latest earlier message of the session that held one, and
\* for the placeholder handle exactly when no message of the session up to
\* the triggering one held a handle.
C27_RenderedForStoredHandle ==
    /\ Len(rendered) = proof_count
    /\ \A n \in 1..Len(rendered) :
          \E r \in Received :
              /\ img_url[r] = ImgUrl(ProofFile(n))
              /\ \E own \in { HandleOf(r) }, upto \in { HandlesUpTo(r) } :
                    /\ own # NoneStr => rendered[n] = own
                    /\ upto # {} => rendered[n] = HandleOf(Latest(upto))
                    /\ upto = {} <=> rendered[n] = PlaceholderUpi

\* A first message with a bait word and a handle had its proof rendered for
\* that handle; a first message of another session with a bait word, whose
\* address the analyzer redacted, had its proof rendered for the placeholder.
C27_Witness ==
    /\ rendered = << Handle_B, PlaceholderUpi >>
    /\ \E a, b \in Received :
          /\ req_sid[a] # req_sid[b]
          /\ req_msg[a] = M_Photo /\ user_at[a] = 2
          /\ req_msg[b] = M_Email /\ user_at[b] = 2 /\ flagged[b] # {}

\* ------------------------------------------ properties of the cursor's memory

\* The request the call of r issued last, as the step leaves it.
LastIssued(r) == gw_log'[r][Len(gw_log'[r])]

\* C28: the cursor is remembered from call to call.  A primary attempt that
\* succeeds leaves the cursor on the credential it used; a call that ends
\* and a call that begins leave the cursor as it is; every primary attempt
\* uses the credential the cursor is on; and the cursor moves only when a
\* primary attempt fails, by one place.  So a call starts with the credential
\* that last succeeded or, after a total failure, with the one the cursor was
\* left on.
C28_CursorRemembered ==
    [][\A r \in Requests :
          /\ pc[r] = "gw_primary" /\ pc'[r] = "gw_done" =>
                /\ current_groq_index' = current_groq_index
                /\ LastIssued(r).key = current_groq_index
          /\ pc[r] = "gw_done" /\ pc'[r] = "idle" =>
                current_groq_index' = current_groq_index
          /\ pc[r] = "idle" /\ pc'[r] = "gw_loop" =>
                current_groq_index' = current_groq_index
          /\ pc[r] = "gw_loop" /\ pc'[r] = "gw_primary" =>
                /\ current_groq_index' = current_groq_index
                /\ LastIssued(r).key = current_groq_index
          /\ pc[r] = "gw_primary" /\ pc'[r] = "gw_loop" =>
                /\ Failed(LastIssued(r))
                /\ current_groq_index' = (current_groq_index + 1) % PoolSize
          /\ pc[r] \in { "gw_loop", "gw_secondary" } /\ pc'[r] \in { "gw_secondary", "gw_done" } =>
                current_groq_index' = current_groq_index
      ]_vars

\* With three credentials, a call found the cursor on the last one, where
\* earlier calls had left it, and succeeded there at once.
C28_Witness ==
    \E r \in Requests :
        /\ PoolSize = 3
        /\ pc[r] = "gw_done"
        /\ Len(gw_log[r]) = 1
        /\ gw_log[r][1].tier = "primary" /\ gw_log[r][1].key = 2
        /\ gw_log[r][1].outcome = "ok"
        /\ gw_adv[r] = 0
        /\ current_groq_index = 2

====
